---- MODULE Spec2Model ----
(***************************************************************************)
(* Video session coordination of the telehealth backend.                   *)
(*                                                                         *)
(* The model covers the four request handlers that read and write the      *)
(* VideoSession and Appointment collections:                               *)
(*   createVideoSession, joinVideoSession, updateSessionStatus             *)
(*   (videoController) and updateAppointmentStatus (appointmentController).*)
(* Every handler is an async function: it runs to its next `await` without *)
(* interruption and may be interleaved with other requests at each await.  *)
(* One action of the model is one such segment: the store operation that   *)
(* was awaited together with the synchronous code that follows it up to    *)
(* the next await (or up to the response).                                 *)
(*                                                                         *)
(* The store is the mongoose/MongoDB pair the handlers are written for:    *)
(*   - findOne returns the first matching document in insertion order;     *)
(*   - save() of a new document inserts it (pre-save hook assigns roomId); *)
(*   - save() of a loaded document writes only the paths the handler       *)
(*     modified ($set of changed scalars, $push of pushed array elements); *)
(*   - a $push increments the document version __v; a $set of an array     *)
(*     element by position carries the loaded __v in its filter and fails  *)
(*     with a VersionError when the stored version differs;                *)
(*   - enum validation runs on save() of modified paths;                   *)
(*   - any write may fail (the handler's catch answers 500).               *)
(*                                                                         *)
(* A run serves up to MaxRequests requests, at most two of them in flight  *)
(* at a time, or MoreSerialRequests more when they are served one by one.  *)
(*                                                                         *)
(* The chat service (sendMessage of the chat controller, the Chat          *)
(* collection) and the socket.io connection handlers of the server (the    *)
(* activeUsers map, the video rooms, the relay of new_message and          *)
(* video_signal) are modelled beside it.  They share no state with the     *)
(* four handlers above, so they run as specifications of their own,        *)
(* ChatSpec and SocketSpec, from the state in which appointment a1 has     *)
(* been confirmed and its video session stored; Spec leaves their          *)
(* variables alone.  A socket handler is synchronous: one event, one step. *)
(* ConversationSpec runs sendMessage with getConversation and markAsRead   *)
(* of the chat controller, segment by segment like the video handlers;     *)
(* ReadSpec runs the same handlers with the clock advancing, from a store  *)
(* that already holds messages.                                            *)
(* The pre-save hook of the Chat schema, like the one of VideoSession, is  *)
(* taken to fill its field before the document is validated and written.   *)
(***************************************************************************)
EXTENDS Integers, Sequences, FiniteSets, TLC

VARIABLES
    now,        \* wall clock in milliseconds, read by `new Date()`
    ticks,      \* how many times the clock has advanced
    appts,      \* Appointment collection: id -> [status, sessionType]
    sessions,   \* VideoSession collection, in insertion order
    procs,      \* in-flight request handlers: slot -> handler frame
    requests,   \* requests accepted so far
    solo,       \* no two requests have been in flight together since the last one started
    serial,     \* no two requests have been in flight together so far
    resp,       \* the response most recently sent
    messages,   \* Chat collection, in insertion order
    sends,      \* in-flight sendMessage handlers: slot -> handler frame
    reply,      \* the chat response most recently sent
    sockets,    \* socket.io connections: socket id -> [state, userId, rooms]
    activeUsers,\* the activeUsers Map: user id -> socket id (0: no entry)
    emitted,    \* the events delivered to connections, in order of delivery
    opsLeft     \* chat requests and socket events the run still accepts

videoVars == <<now, ticks, appts, sessions, procs, requests, solo, serial, resp>>
chatVars  == <<messages, sends, reply, sockets, activeUsers, emitted, opsLeft>>
vars == <<now, ticks, appts, sessions, procs, requests, solo, serial, resp,
          messages, sends, reply, sockets, activeUsers, emitted, opsLeft>>

---------------------------------------------------------------------------
(* Bounds of the exploration *)

\* Requests per run, and how many more a run may take as long as its
\* requests are served one at a time.
MaxRequests == 3
MoreSerialRequests == 1
MaxTicks == 1

\* Two handler frames: at most two requests are in flight at once.
Procs == {1, 2}

\* Chat requests and socket events per run of the chat service, socket
\* events per run of the room relay, and the connections opened in a run;
\* chat requests per run of the conversation handlers, without and with
\* messages stored before the run.
MaxChatOps == 3
MaxConversationOps == 3
MaxReadOps == 3
MaxSocketOps == 6
MaxSockets == 3

\* The amounts by which the clock advances between steps (ms).
TickSteps == {500, 1800000}

---------------------------------------------------------------------------
(* Identities and documents *)

Users == {"pat", "ther", "other"}

\* User.role of each identity (req.user.role)
Role(u) ==
    CASE u = "pat"   -> "patient"
      [] u = "ther"  -> "therapist"
      [] u = "other" -> "patient"
      [] u = "adm"   -> "admin"

Appts == {"a1"}
\* an id no Appointment document has
NoAppt == "a0"
ApptInputs == Appts \cup {NoAppt}

ApptPatient(a) == "pat"
ApptTherapist(a) == "ther"

SessionTypes == {"video", "phone", "in-person"}
ApptStatuses == {"pending_confirmation", "confirmed", "completed", "cancelled", "no_show"}
ApptStatusInputs == {"confirmed", "cancelled"}

SessionStatuses == {"waiting", "active", "ended", "cancelled"}
\* "paused" is a request value outside the schema's enum
SessionStatusInputs == SessionStatuses \cup {"paused"}

\* req.body.sessionNotes: "" when the request carries none
NotesInputs == {"", "note"}

MsPerSecond == 1000

\* An optional field is <<>> when unset and <<x>> when set to x.
Unset == <<>>
Some(x) == <<x>>
IsSet(f) == f # <<>>

\* new VideoSession({patientId, therapistId, appointmentId}) with the
\* schema's defaults; roomId is assigned by the pre-save hook.
NewVideoSession(a, pat, ther) ==
    [ appointmentId  |-> a,
      patientId      |-> pat,
      therapistId    |-> ther,
      roomId         |-> 0,
      status         |-> "waiting",
      startTime      |-> Unset,
      endTime        |-> Unset,
      duration       |-> Unset,
      participants   |-> <<>>,
      therapistNotes |-> "",
      patientFeedback |-> "",
      v              |-> 0 ]

\* pre('save'): a room id no stored session has
FreshRoomId == Len(sessions) + 1

\* a lookup by appointment that matches no stored session
FindSessionByAppointmentMisses(a) == 0

\* VideoSession.findOne({ appointmentId }): index of the first match, 0 if none
FindSessionByAppointment(a) ==
    LET hits == {i \in 1..Len(sessions) : sessions[i].appointmentId = a}
    IN  IF hits = {} THEN 0 ELSE CHOOSE i \in hits : \A j \in hits : i <= j

\* VideoSession.findOne({ roomId }): index of the first match, 0 if none
FindSessionByRoom(r) ==
    LET hits == {i \in 1..Len(sessions) : sessions[i].roomId = r}
    IN  IF hits = {} THEN 0 ELSE CHOOSE i \in hits : \A j \in hits : i <= j

\* isPatient || isTherapist on a session document
IsSessionParty(doc, u) == doc.patientId = u \/ doc.therapistId = u

\* a permission check that lets every authenticated identity through
AnyIdentityPermitted(doc, u) == TRUE

\* a permission check that lets every authenticated identity change a session
AnyIdentityMayUpdate(doc, u) == TRUE

\* joinVideoSession's permission check
JoinPermitted(doc, u) == IsSessionParty(doc, u)

\* updateSessionStatus's permission check
StatusPermitted(doc, u) == IsSessionParty(doc, u)

\* isPatient || isTherapist on an appointment
IsAppointmentParty(a, u) == ApptPatient(a) = u \/ ApptTherapist(a) = u

\* participants.findIndex(p => p.userId === req.user.id): 1-based, 0 if none
ParticipantIndex(parts, u) ==
    LET hits == {i \in 1..Len(parts) : parts[i].userId = u}
    IN  IF hits = {} THEN 0 ELSE CHOOSE i \in hits : \A j \in hits : i <= j

\* a duration rounded up to the next whole second
DurationRoundedUp(startMs, endMs) ==
    (endMs - startMs + MsPerSecond - 1) \div MsPerSecond

\* the difference of the two dates, left in milliseconds
DurationMilliseconds(startMs, endMs) == endMs - startMs

\* Math.floor((endTime - startTime) / 1000)
DurationSeconds(startMs, endMs) == (endMs - startMs) \div MsPerSecond

---------------------------------------------------------------------------
(* Handler frames and responses *)

NoDoc == NewVideoSession(NoAppt, "", "")

IdleProc ==
    [ pc |-> "idle", op |-> "none", user |-> "", appt |-> NoAppt, room |-> 0,
      status |-> "", notes |-> "", sid |-> 0, doc |-> NoDoc, loaded |-> "",
      t |-> 0 ]

InFlight(q) == procs[q].pc # "idle"

\* The frame of a request that starts in slot p.
NewFrame(p, op, u, a, r, st, n) ==
    [ IdleProc EXCEPT !.op = op, !.user = u, !.appt = a, !.room = r,
                      !.status = st, !.notes = n ]

\* No other request is in flight when one starts in slot p.
StartsAlone(p) == \A q \in Procs \ {p} : ~InFlight(q)

NoResp ==
    [ op |-> "none", user |-> "", appt |-> NoAppt, room |-> 0,
      code |-> 0, roomId |-> 0, alone |-> FALSE ]

Response(fr, code, rid) ==
    [ op |-> fr.op, user |-> fr.user, appt |-> fr.appt, room |-> fr.room,
      code |-> code, roomId |-> rid, alone |-> solo ]

\* A request starts in slot p with frame fr and stays in flight at pc.
Begin(p, fr, pc) ==
    /\ procs' = [procs EXCEPT ![p] = [fr EXCEPT !.pc = pc]]
    /\ requests' = requests + 1
    /\ solo' = StartsAlone(p)
    /\ serial' = (serial /\ StartsAlone(p))
    /\ UNCHANGED resp

\* A request starts in slot p and is answered in the same segment.
BeginAndRespond(p, fr, code, rid) ==
    /\ UNCHANGED procs
    /\ requests' = requests + 1
    /\ solo' = StartsAlone(p)
    /\ serial' = (serial /\ StartsAlone(p))
    /\ resp' = [Response(fr, code, rid) EXCEPT !.alone = StartsAlone(p)]

\* The handler in slot p moves on to its next await.
Continue(p, fr, pc) ==
    /\ procs' = [procs EXCEPT ![p] = [fr EXCEPT !.pc = pc]]
    /\ UNCHANGED <<requests, solo, serial, resp>>

\* The handler in slot p sends its response and ends.
Respond(p, code, rid) ==
    /\ procs' = [procs EXCEPT ![p] = IdleProc]
    /\ resp' = Response(procs[p], code, rid)
    /\ UNCHANGED <<requests, solo, serial>>

\* A request is served in the lowest free frame.
CanStart(p) ==
    /\ ~InFlight(p)
    /\ \A q \in Procs : q < p => InFlight(q)
    /\ \/ requests < MaxRequests
       \/ /\ requests < MaxRequests + MoreSerialRequests
          /\ serial
          /\ StartsAlone(p)

---------------------------------------------------------------------------
(* Chat messages and socket connections *)

\* the users of the chat service: those above and an administrator
ChatUsers == Users \cup {"adm"}

\* `message.length > 1000`, and maxlength of the schema
MaxMessageLength == 1000

\* A message body is its text and its length in UTF-16 units.
NoBody == [text |-> "", len |-> 0]
Bodies ==
    { NoBody,
      [text |-> "h", len |-> 1],
      [text |-> "thousand", len |-> 1000],
      [text |-> "thousand and one", len |-> 1001] }

\* Two sendMessage handlers may be in flight at once.
ChatProcs == {1, 2}

\* socket.id of the connections, in the order they are opened
SocketIds == 1..MaxSockets

\* a chat handler frame; `found` is what getConversation's query returned
IdleSend ==
    [pc |-> "idle", user |-> "", receiver |-> "", body |-> NoBody, found |-> <<>>]

\* a chat response: which handler sent it (op), to which request (user,
\* receiver or conversation, body), with which status code and data, and
\* whether it answers the same request as the response before it (repeat)
NoReply ==
    [n |-> 0, op |-> "none", user |-> "", receiver |-> "", body |-> NoBody,
     code |-> 0, conversation |-> "", data |-> <<>>, repeat |-> FALSE]

\* a socket id not yet given out, and one whose connection is gone
FreeSocket == [state |-> "free", userId |-> "", rooms |-> {}]
ClosedSocket == [state |-> "closed", userId |-> "", rooms |-> {}]

\* the chat service after start-up: an empty collection, no connection,
\* `const activeUsers = new Map()`
ChatStart ==
    /\ messages = <<>>
    /\ sends = [p \in ChatProcs |-> IdleSend]
    /\ reply = NoReply
    /\ sockets = [s \in SocketIds |-> FreeSocket]
    /\ activeUsers = [u \in ChatUsers |-> 0]
    /\ emitted = <<>>

---------------------------------------------------------------------------
(* Init *)

Init ==
    /\ now = 0
    /\ ticks = 0
    /\ appts \in [Appts -> [status : {"pending_confirmation"}, sessionType : SessionTypes]]
    /\ sessions = <<>>
    /\ procs = [p \in Procs |-> IdleProc]
    /\ requests = 0
    /\ solo = TRUE
    /\ serial = TRUE
    /\ resp = NoResp
    /\ ChatStart
    /\ opsLeft = 0

Tick ==
    /\ ticks < MaxTicks
    /\ \E d \in TickSteps : now' = now + d
    /\ ticks' = ticks + 1
    /\ UNCHANGED <<appts, sessions, procs, requests, solo, serial, resp>>
    /\ UNCHANGED chatVars

---------------------------------------------------------------------------
(* createVideoSession: POST /api/video/create *)

\* Appointment.findById and the checks that follow it (404, 403, 400).
\* (A body without appointmentId is answered 400 before any store access
\* and is not among the inputs.)
CVS_FindAppointment(p, u, a) ==
    /\ CanStart(p)
    /\ LET fr == NewFrame(p, "create", u, a, 0, "", "")
       IN  IF a \notin Appts
             THEN BeginAndRespond(p, fr, 404, 0)
           ELSE IF ~IsAppointmentParty(a, u)
             THEN BeginAndRespond(p, fr, 403, 0)
           ELSE IF appts[a].status # "confirmed"
             THEN BeginAndRespond(p, fr, 400, 0)
           ELSE Begin(p, fr, "cvs_findSession")
    /\ UNCHANGED <<now, ticks, appts, sessions>>
    /\ UNCHANGED chatVars

\* VideoSession.findOne({ appointmentId }); an existing session that
\* already lists the caller is answered at once.
CVS_FindSession(p) ==
    /\ procs[p].pc = "cvs_findSession"
    /\ LET fr  == procs[p]
           sid == FindSessionByAppointment(fr.appt)
       IN  IF sid = 0
             THEN Continue(p, [fr EXCEPT !.doc = NewVideoSession(fr.appt,
                                   ApptPatient(fr.appt), ApptTherapist(fr.appt))],
                           "cvs_insert")
           ELSE IF ParticipantIndex(sessions[sid].participants, fr.user) = 0
             THEN Continue(p, [fr EXCEPT !.sid = sid, !.doc = sessions[sid], !.t = now],
                           "cvs_push")
           ELSE Respond(p, 200, sessions[sid].roomId)
    /\ UNCHANGED <<now, ticks, appts, sessions>>
    /\ UNCHANGED chatVars

\* videoSession.save() of the new document; the caller is then pushed
\* onto its (empty) participants list.
CVS_Insert(p) ==
    /\ procs[p].pc = "cvs_insert"
    /\ \/ /\ Respond(p, 500, 0)
          /\ UNCHANGED sessions
       \/ LET fr    == procs[p]
              saved == [fr.doc EXCEPT !.roomId = FreshRoomId]
          IN  /\ sessions' = Append(sessions, saved)
              /\ Continue(p, [fr EXCEPT !.sid = Len(sessions) + 1, !.doc = saved, !.t = now],
                          "cvs_push")
    /\ UNCHANGED <<now, ticks, appts>>
    /\ UNCHANGED chatVars

\* videoSession.save() after participants.push: a $push that increments __v
PushParticipant(stored, u, t) ==
    [stored EXCEPT !.participants = Append(@, [userId |-> u, joinedAt |-> t]),
                   !.v = @ + 1]

CVS_Push(p) ==
    /\ procs[p].pc = "cvs_push"
    /\ \/ /\ Respond(p, 500, 0)
          /\ UNCHANGED sessions
       \/ LET fr == procs[p]
          IN  /\ sessions' = [sessions EXCEPT ![fr.sid] = PushParticipant(@, fr.user, fr.t)]
              /\ Respond(p, 200, fr.doc.roomId)
    /\ UNCHANGED <<now, ticks, appts>>
    /\ UNCHANGED chatVars

---------------------------------------------------------------------------
(* joinVideoSession: POST /api/video/join/:roomId *)

\* room ids a request may name: those of stored sessions and 0, which none has
RoomInputs == 0..Len(sessions)

\* VideoSession.findOne({ roomId }), the permission check, and the update of
\* the loaded document (joinedAt = new Date(), or a push).
JVS_Find(p, u, r) ==
    /\ CanStart(p)
    /\ LET fr  == NewFrame(p, "join", u, NoAppt, r, "", "")
           sid == FindSessionByRoom(r)
       IN  IF sid = 0
             THEN BeginAndRespond(p, fr, 404, 0)
           ELSE IF ~JoinPermitted(sessions[sid], u)
             THEN BeginAndRespond(p, fr, 403, 0)
           ELSE Begin(p, [fr EXCEPT !.sid = sid, !.doc = sessions[sid], !.t = now],
                      "jvs_save")
    /\ UNCHANGED <<now, ticks, appts, sessions>>
    /\ UNCHANGED chatVars

\* The filter of the save: a positional $set carries the loaded __v.
JoinVersionOk(stored, doc, u) ==
    ParticipantIndex(doc.participants, u) = 0 \/ stored.v = doc.v

\* a save that appends an entry for the caller whether or not one exists
ApplyJoinAlwaysPush(stored, doc, u, t) == PushParticipant(stored, u, t)

\* The write of the save: refresh the caller's entry, or push a new one.
ApplyJoin(stored, doc, u, t) ==
    LET idx == ParticipantIndex(doc.participants, u)
    IN  IF idx > 0
          THEN [stored EXCEPT !.participants[idx].joinedAt = t]
          ELSE PushParticipant(stored, u, t)

JVS_Save(p) ==
    /\ procs[p].pc = "jvs_save"
    /\ LET fr == procs[p]
       IN  \/ /\ Respond(p, 500, 0)
              /\ UNCHANGED sessions
           \/ /\ ~JoinVersionOk(sessions[fr.sid], fr.doc, fr.user)
              /\ Respond(p, 500, 0)
              /\ UNCHANGED sessions
           \/ /\ JoinVersionOk(sessions[fr.sid], fr.doc, fr.user)
              /\ sessions' = [sessions EXCEPT ![fr.sid] = ApplyJoin(@, fr.doc, fr.user, fr.t)]
              /\ Respond(p, 200, fr.doc.roomId)
    /\ UNCHANGED <<now, ticks, appts>>
    /\ UNCHANGED chatVars

---------------------------------------------------------------------------
(* updateSessionStatus: PUT /api/video/session/:roomId/status *)

\* the statuses for which the linked appointment is updated, as a handler
\* that also did so for a cancellation would have them
CompletesAppointmentOnTerminal(st) == st \in {"ended", "cancelled"}

\* `if (status === 'ended')`: the status for which the handler goes on to
\* update the linked appointment
CompletesAppointment(st) == st = "ended"

\* VideoSession.findOne({ roomId }), the permission check, and the update of
\* the loaded document (status, startTime, endTime, duration) at time `now`.
USS_Find(p, u, r, st, n) ==
    /\ CanStart(p)
    /\ LET fr  == NewFrame(p, "status", u, NoAppt, r, st, n)
           sid == FindSessionByRoom(r)
       IN  IF sid = 0
             THEN BeginAndRespond(p, fr, 404, 0)
           ELSE IF ~StatusPermitted(sessions[sid], u)
             THEN BeginAndRespond(p, fr, 403, 0)
           ELSE Begin(p, [fr EXCEPT !.sid = sid, !.doc = sessions[sid], !.t = now],
                      IF CompletesAppointment(st) THEN "uss_updateAppt" ELSE "uss_save")
    /\ UNCHANGED <<now, ticks, appts, sessions>>
    /\ UNCHANGED chatVars

\* Appointment.findByIdAndUpdate(appointmentId, { status: 'completed' })
USS_UpdateAppt(p) ==
    /\ procs[p].pc = "uss_updateAppt"
    /\ \/ /\ Respond(p, 500, 0)
          /\ UNCHANGED appts
       \/ /\ appts' = [appts EXCEPT ![procs[p].doc.appointmentId].status = "completed"]
          /\ Continue(p, procs[p], "uss_save")
    /\ UNCHANGED <<now, ticks, sessions>>
    /\ UNCHANGED chatVars

\* a status update that restarts the clock on every `active`
ApplyStatusUpdateRestartsClock(stored, doc, u, st, n, t) ==
    [stored EXCEPT
        !.status    = IF st # doc.status THEN st ELSE @,
        !.startTime = IF st = "active" THEN Some(t) ELSE @,
        !.endTime   = IF st = "ended" THEN Some(t) ELSE @,
        !.duration  = IF st = "ended" /\ IsSet(doc.startTime)
                        THEN Some((t - doc.startTime[1]) \div MsPerSecond) ELSE @,
        !.therapistNotes  = IF n # "" /\ Role(u) = "therapist" THEN n ELSE @,
        !.patientFeedback = IF n # "" /\ Role(u) # "therapist" THEN n ELSE @ ]

\* a status update that files every note under therapistNotes
ApplyStatusUpdateNotesUnsorted(stored, doc, u, st, n, t) ==
    [stored EXCEPT
        !.status    = IF st # doc.status THEN st ELSE @,
        !.startTime = IF st = "active" /\ ~IsSet(doc.startTime) THEN Some(t) ELSE @,
        !.endTime   = IF st = "ended" THEN Some(t) ELSE @,
        !.duration  = IF st = "ended" /\ IsSet(doc.startTime)
                        THEN Some((t - doc.startTime[1]) \div MsPerSecond) ELSE @,
        !.therapistNotes  = IF n # "" THEN n ELSE @ ]

\* What the handler assigned to the loaded document `doc`, written onto the
\* stored document: only the modified paths are set.
ApplyStatusUpdate(stored, doc, u, st, n, t) ==
    [stored EXCEPT
        !.status    = IF st # doc.status THEN st ELSE @,
        !.startTime = IF st = "active" /\ ~IsSet(doc.startTime) THEN Some(t) ELSE @,
        !.endTime   = IF st = "ended" THEN Some(t) ELSE @,
        !.duration  = IF st = "ended" /\ IsSet(doc.startTime)
                        THEN Some(DurationSeconds(doc.startTime[1], t)) ELSE @,
        !.therapistNotes  = IF n # "" /\ Role(u) = "therapist" THEN n ELSE @,
        !.patientFeedback = IF n # "" /\ Role(u) # "therapist" THEN n ELSE @ ]

\* videoSession.save(): enum validation of status, then the write
USS_Save(p) ==
    /\ procs[p].pc = "uss_save"
    /\ LET fr == procs[p]
       IN  \/ /\ Respond(p, 500, 0)
              /\ UNCHANGED sessions
           \/ /\ fr.status \notin SessionStatuses
              /\ Respond(p, 500, 0)
              /\ UNCHANGED sessions
           \/ /\ fr.status \in SessionStatuses
              /\ sessions' = [sessions EXCEPT ![fr.sid] =
                     ApplyStatusUpdate(@, fr.doc, fr.user, fr.status, fr.notes, fr.t)]
              /\ Respond(p, 200, fr.doc.roomId)
    /\ UNCHANGED <<now, ticks, appts>>
    /\ UNCHANGED chatVars

---------------------------------------------------------------------------
(* updateAppointmentStatus: PUT /api/appointments/:id/status *)

\* Appointment.findById and the permission check.  cancelReason and
\* cancelledBy are stored with the status and read by none of the handlers
\* here; they are left out of the appointment document.
UAS_Find(p, u, a, st) ==
    /\ CanStart(p)
    /\ LET fr == NewFrame(p, "appointment", u, a, 0, st, "")
       IN  IF a \notin Appts
             THEN BeginAndRespond(p, fr, 404, 0)
           ELSE IF ~IsAppointmentParty(a, u) /\ Role(u) # "admin"
             THEN BeginAndRespond(p, fr, 403, 0)
           ELSE Begin(p, [fr EXCEPT !.loaded = appts[a].status], "uas_save")
    /\ UNCHANGED <<now, ticks, appts, sessions>>
    /\ UNCHANGED chatVars

\* the condition under which a confirmation creates the video session
CreatesSessionOnConfirm(a, st) == st = "confirmed" /\ appts[a].sessionType = "video"

\* appointment.save(): status is written when it differs from the loaded one
UAS_Save(p) ==
    /\ procs[p].pc = "uas_save"
    /\ LET fr == procs[p]
       IN  \/ /\ Respond(p, 500, 0)
              /\ UNCHANGED appts
           \/ /\ appts' = [appts EXCEPT ![fr.appt].status =
                               IF fr.status # fr.loaded THEN fr.status ELSE @]
              /\ IF CreatesSessionOnConfirm(fr.appt, fr.status)
                   THEN Continue(p, fr, "uas_findSession")
                   ELSE Respond(p, 200, 0)
    /\ UNCHANGED <<now, ticks, sessions>>
    /\ UNCHANGED chatVars

\* VideoSession.findOne({ appointmentId })
UAS_FindSession(p) ==
    /\ procs[p].pc = "uas_findSession"
    /\ LET fr == procs[p]
       IN  IF FindSessionByAppointment(fr.appt) = 0
             THEN Continue(p, [fr EXCEPT !.doc = NewVideoSession(fr.appt,
                                   ApptPatient(fr.appt), ApptTherapist(fr.appt))],
                           "uas_insert")
             ELSE Respond(p, 200, 0)
    /\ UNCHANGED <<now, ticks, appts, sessions>>
    /\ UNCHANGED chatVars

\* videoSession.save() of the new document
UAS_Insert(p) ==
    /\ procs[p].pc = "uas_insert"
    /\ \/ /\ Respond(p, 500, 0)
          /\ UNCHANGED sessions
       \/ /\ sessions' = Append(sessions, [procs[p].doc EXCEPT !.roomId = FreshRoomId])
          /\ Respond(p, 200, 0)
    /\ UNCHANGED <<now, ticks, appts>>
    /\ UNCHANGED chatVars

---------------------------------------------------------------------------
(* The system *)

Next ==
    \/ Tick
    \/ \E p \in Procs, u \in Users, a \in ApptInputs : CVS_FindAppointment(p, u, a)
    \/ \E p \in Procs : CVS_FindSession(p)
    \/ \E p \in Procs : CVS_Insert(p)
    \/ \E p \in Procs : CVS_Push(p)
    \/ \E p \in Procs, u \in Users, r \in RoomInputs : JVS_Find(p, u, r)
    \/ \E p \in Procs : JVS_Save(p)
    \/ \E p \in Procs, u \in Users, r \in RoomInputs,
          st \in SessionStatusInputs, n \in NotesInputs : USS_Find(p, u, r, st, n)
    \/ \E p \in Procs : USS_UpdateAppt(p)
    \/ \E p \in Procs : USS_Save(p)
    \/ \E p \in Procs, u \in Users, a \in ApptInputs,
          st \in ApptStatusInputs : UAS_Find(p, u, a, st)
    \/ \E p \in Procs : UAS_Save(p)
    \/ \E p \in Procs : UAS_FindSession(p)
    \/ \E p \in Procs : UAS_Insert(p)

Spec == Init /\ [][Next]_vars

---------------------------------------------------------------------------
(* sendMessage: POST /api/chat/send *)

\* `[a, b].sort()` of two id strings; the ids used here sort in this order
IdOrder == <<"adm", "ghost", "other", "pat", "ther">>
IdRank(u) == CHOOSE i \in 1..Len(IdOrder) : IdOrder[i] = u
SortIds(a, b) == IF IdRank(a) <= IdRank(b) THEN <<a, b>> ELSE <<b, a>>

\* the two ids joined in the order given
ConversationIdUnsorted(a, b) == a \o "_" \o b

\* pre('save'): the sorted ids joined by '_'
ConversationId(a, b) == LET ids == SortIds(a, b) IN ids[1] \o "_" \o ids[2]

\* new Chat({ senderId, receiverId, message, messageType }) as saved; the
\* messageType is kept at its default
NewChat(sender, receiver, body) ==
    [ senderId       |-> sender,
      receiverId     |-> receiver,
      message        |-> body,
      messageType    |-> "text",
      isRead         |-> FALSE,
      readAt         |-> Unset,
      conversationId |-> ConversationId(sender, receiver) ]

\* Appointment.find({ $or: [...] }).length > 0
HasAppointmentTogether(u1, u2) ==
    \E a \in Appts :
        \/ ApptPatient(a) = u1 /\ ApptTherapist(a) = u2
        \/ ApptPatient(a) = u2 /\ ApptTherapist(a) = u1

CheckTherapeuticRelationship(u1, u2) ==
    IF u1 \notin ChatUsers \/ u2 \notin ChatUsers THEN FALSE
    ELSE IF Role(u1) = "admin" \/ Role(u2) = "admin" THEN TRUE
    ELSE IF \/ Role(u1) = "patient" /\ Role(u2) = "therapist"
            \/ Role(u1) = "therapist" /\ Role(u2) = "patient"
      THEN HasAppointmentTogether(u1, u2)
    ELSE FALSE

\* a check that lets every pair through
AnyPairPermitted(u, r) == TRUE

\* the negation of `!isTherapeuticRelationship && req.user.role !== 'admin'`
SendPermitted(u, r) == CheckTherapeuticRelationship(u, r) \/ Role(u) = "admin"

\* the receiverId values a request may carry: a user's id, the id of no
\* user, or none
ReceiverInputs == ChatUsers \cup {"ghost", ""}

ChatCanStart(p) ==
    /\ opsLeft > 0
    /\ sends[p].pc = "idle"
    /\ \A q \in ChatProcs : q < p => sends[q].pc # "idle"

ChatReply(fr, code) ==
    [n |-> reply.n + 1, op |-> "send", user |-> fr.user, receiver |-> fr.receiver,
     body |-> fr.body, code |-> code, conversation |-> "", data |-> <<>>,
     repeat |-> FALSE]

SendContinue(p, pc) ==
    /\ sends' = [sends EXCEPT ![p].pc = pc]
    /\ UNCHANGED reply

SendRespond(p, code) ==
    /\ sends' = [sends EXCEPT ![p] = IdleSend]
    /\ reply' = ChatReply(sends[p], code)

\* the validation of the request body, up to `await User.findById`
SM_Validate(p, u, r, b) ==
    /\ ChatCanStart(p)
    /\ opsLeft' = opsLeft - 1
    /\ LET fr == [pc |-> "sm_findReceiver", user |-> u, receiver |-> r, body |-> b,
                  found |-> <<>>]
       IN  IF r = "" \/ b.len = 0
             THEN reply' = ChatReply(fr, 400) /\ UNCHANGED sends
           ELSE IF b.len > MaxMessageLength
             THEN reply' = ChatReply(fr, 400) /\ UNCHANGED sends
           ELSE sends' = [sends EXCEPT ![p] = fr] /\ UNCHANGED reply
    /\ UNCHANGED <<messages, sockets, activeUsers, emitted>>
    /\ UNCHANGED videoVars

\* User.findById(receiverId)
SM_FindReceiver(p) ==
    /\ sends[p].pc = "sm_findReceiver"
    /\ IF sends[p].receiver \notin ChatUsers
         THEN SendRespond(p, 404)
         ELSE SendContinue(p, "sm_relationship")
    /\ UNCHANGED <<messages, sockets, activeUsers, emitted, opsLeft>>
    /\ UNCHANGED videoVars

\* checkTherapeuticRelationship(req.user.id, receiverId) and the 403
SM_Relationship(p) ==
    /\ sends[p].pc = "sm_relationship"
    /\ IF ~SendPermitted(sends[p].user, sends[p].receiver)
         THEN SendRespond(p, 403)
         ELSE SendContinue(p, "sm_save")
    /\ UNCHANGED <<messages, sockets, activeUsers, emitted, opsLeft>>
    /\ UNCHANGED videoVars

\* chat.save(), the two populate calls and the 201
SM_Save(p) ==
    /\ sends[p].pc = "sm_save"
    /\ \/ /\ SendRespond(p, 500)
          /\ UNCHANGED messages
       \/ /\ messages' = Append(messages,
                  NewChat(sends[p].user, sends[p].receiver, sends[p].body))
          /\ SendRespond(p, 201)
    /\ UNCHANGED <<sockets, activeUsers, emitted, opsLeft>>
    /\ UNCHANGED videoVars

---------------------------------------------------------------------------
(* getConversation: GET /api/chat/conversation/:userId, and                *)
(* markAsRead: PUT /api/chat/read/:conversationId                          *)

\* the two ids joined as the request gives them
QueryConversationIdUnsorted(u, v) == u \o "_" \o v

\* `[req.user.id, userId].sort().join('_')`
QueryConversationId(u, v) == LET ids == SortIds(u, v) IN ids[1] \o "_" \o ids[2]

\* the negation of `!isTherapeuticRelationship && req.user.role !== 'admin'`
ConversationPermitted(u, v) == CheckTherapeuticRelationship(u, v) \/ Role(u) = "admin"

\* the userId values a request may name: a user's id or the id of no user
PartnerInputs == ChatUsers \cup {"ghost"}

\* the conversationId values a markAsRead request may name
ConversationInputs == {"pat_ther", "adm_ther", "ther_pat"}

RECURSIVE Matching(_, _)
\* Chat.find({ conversationId }) in the order the response lists it (oldest
\* first); the default page holds 50 messages, more than a run stores
Matching(msgs, c) ==
    IF msgs = <<>> THEN <<>>
    ELSE IF msgs[1].conversationId = c
      THEN <<msgs[1]>> \o Matching(Tail(msgs), c)
    ELSE Matching(Tail(msgs), c)

\* an update that marks the conversation's unread messages whoever they
\* are addressed to
MarkReadWholeConversation(msgs, c, u, t) ==
    [j \in 1..Len(msgs) |->
        IF msgs[j].conversationId = c /\ ~msgs[j].isRead
          THEN [msgs[j] EXCEPT !.isRead = TRUE, !.readAt = Some(t)]
          ELSE msgs[j]]

\* an update that flips isRead of every message of the conversation
\* addressed to the reader
MarkReadFlips(msgs, c, u, t) ==
    [j \in 1..Len(msgs) |->
        IF msgs[j].conversationId = c /\ msgs[j].receiverId = u
          THEN [msgs[j] EXCEPT !.isRead = ~@, !.readAt = Some(t)]
          ELSE msgs[j]]

\* Chat.updateMany({ conversationId, receiverId, isRead: false },
\*                 { isRead: true, readAt: new Date() })
MarkRead(msgs, c, u, t) ==
    [j \in 1..Len(msgs) |->
        IF msgs[j].conversationId = c /\ msgs[j].receiverId = u /\ ~msgs[j].isRead
          THEN [msgs[j] EXCEPT !.isRead = TRUE, !.readAt = Some(t)]
          ELSE msgs[j]]

\* the response of getConversation or markAsRead
ReadReply(op, u, v, c, code, data) ==
    [n |-> reply.n + 1, op |-> op, user |-> u, receiver |-> v, body |-> NoBody,
     code |-> code, conversation |-> c, data |-> data,
     repeat |-> ( /\ reply.op = op /\ reply.user = u /\ reply.receiver = v
                  /\ reply.conversation = c /\ reply.code = 200 )]

\* checkTherapeuticRelationship(req.user.id, userId), the 403, and the
\* conversationId of the query
GC_Relationship(p, u, v) ==
    /\ ChatCanStart(p)
    /\ opsLeft' = opsLeft - 1
    /\ IF ~ConversationPermitted(u, v)
         THEN /\ reply' = ReadReply("conversation", u, v, "", 403, <<>>)
              /\ UNCHANGED sends
         ELSE /\ sends' = [sends EXCEPT ![p] =
                    [pc |-> "gc_find", user |-> u, receiver |-> v, body |-> NoBody,
                     found |-> <<>>]]
              /\ UNCHANGED reply
    /\ UNCHANGED <<messages, sockets, activeUsers, emitted>>
    /\ UNCHANGED videoVars

\* Chat.find({ conversationId })
GC_Find(p) ==
    /\ sends[p].pc = "gc_find"
    /\ sends' = [sends EXCEPT
           ![p].pc = "gc_update",
           ![p].found = Matching(messages,
                            QueryConversationId(sends[p].user, sends[p].receiver))]
    /\ UNCHANGED <<messages, reply, sockets, activeUsers, emitted, opsLeft>>
    /\ UNCHANGED videoVars

\* Chat.updateMany of the conversation's unread messages addressed to the
\* caller, and the response with the messages found
GC_Update(p) ==
    /\ sends[p].pc = "gc_update"
    /\ LET fr == sends[p]
           c  == QueryConversationId(fr.user, fr.receiver)
       IN  \/ /\ reply' = ReadReply("conversation", fr.user, fr.receiver, c, 500, <<>>)
              /\ UNCHANGED messages
           \/ /\ messages' = MarkRead(messages, c, fr.user, now)
              /\ reply' = ReadReply("conversation", fr.user, fr.receiver, c, 200, fr.found)
    /\ sends' = [sends EXCEPT ![p] = IdleSend]
    /\ UNCHANGED <<sockets, activeUsers, emitted, opsLeft>>
    /\ UNCHANGED videoVars

\* markAsRead: its one Chat.updateMany and the response
MarkAsRead(u, c) ==
    /\ opsLeft > 0
    /\ opsLeft' = opsLeft - 1
    /\ \/ /\ reply' = ReadReply("read", u, "", c, 500, <<>>)
          /\ UNCHANGED messages
       \/ /\ messages' = MarkRead(messages, c, u, now)
          /\ reply' = ReadReply("read", u, "", c, 200, <<>>)
    /\ UNCHANGED <<sends, sockets, activeUsers, emitted>>
    /\ UNCHANGED videoVars

---------------------------------------------------------------------------
(* The socket.io connection handlers.  Each handler is synchronous: one     *)
(* event is one step.                                                       *)

\* what `authenticate` is sent: a token signed for a user, or one that
\* jwt.verify rejects
Tokens == ChatUsers \cup {"bad"}

\* the room names events carry: the roomId of the stored video session, and
\* a name that is no session's roomId
SocketRooms == {1, 2}

Signals == {"offer", "answer"}

IsOpen(s) == sockets[s].state = "open"

\* the connections in room r
Members(r) == {s \in SocketIds : IsOpen(s) /\ r \in sockets[s].rooms}

\* the connections a socket id stands for: io.to(id) reaches the room every
\* connection joins under its own id
Holder(id) == {s \in SocketIds : s = id /\ IsOpen(s)}

RECURSIVE InIdOrder(_)
InIdOrder(S) ==
    IF S = {} THEN <<>>
    ELSE LET m == CHOOSE x \in S : \A y \in S : x <= y
         IN  <<m>> \o InIdOrder(S \ {m})

Event(name, from, room, receiver, body, signal) ==
    [event |-> name, from |-> from, room |-> room, receiver |-> receiver,
     body |-> body, signal |-> signal]

\* the event ev delivered to each connection of `targets`
Deliveries(targets, ev) ==
    LET order == InIdOrder(targets)
    IN  [i \in 1..Len(order) |->
            [to |-> order[i], toUser |-> sockets[order[i]].userId, ev |-> ev]]

\* deliveries put ahead of the earlier ones
EmitAhead(targets, ev) == emitted' = Deliveries(targets, ev) \o emitted

Emit(targets, ev) == emitted' = emitted \o Deliveries(targets, ev)

SocketEvent(s) ==
    /\ opsLeft > 0
    /\ IsOpen(s)
    /\ opsLeft' = opsLeft - 1

\* io.on('connection')
Connect ==
    /\ opsLeft > 0
    /\ opsLeft' = opsLeft - 1
    /\ \E s \in SocketIds :
          /\ sockets[s].state = "free"
          /\ \A q \in SocketIds : q < s => sockets[q].state # "free"
          /\ sockets' = [sockets EXCEPT ![s].state = "open"]
    /\ UNCHANGED <<messages, sends, reply, activeUsers, emitted>>
    /\ UNCHANGED videoVars

\* socket.on('authenticate')
Authenticate(s, token) ==
    /\ SocketEvent(s)
    /\ IF token \in ChatUsers
         THEN /\ sockets' = [sockets EXCEPT ![s].userId = token]
              /\ activeUsers' = [activeUsers EXCEPT ![token] = s]
              /\ UNCHANGED emitted
         ELSE /\ Emit({s}, Event("auth_error", "", 0, "", NoBody, ""))
              /\ UNCHANGED <<sockets, activeUsers>>
    /\ UNCHANGED <<messages, sends, reply>>
    /\ UNCHANGED videoVars

\* socket.on('join_video_session')
JoinVideoSessionRoom(s, r) ==
    /\ SocketEvent(s)
    /\ sockets' = [sockets EXCEPT ![s].rooms = @ \cup {r}]
    /\ Emit(Members(r) \ {s}, Event("user_joined", sockets[s].userId, r, "", NoBody, ""))
    /\ UNCHANGED <<messages, sends, reply, activeUsers>>
    /\ UNCHANGED videoVars

\* socket.on('leave_video_session')
LeaveVideoSessionRoom(s, r) ==
    /\ SocketEvent(s)
    /\ sockets' = [sockets EXCEPT ![s].rooms = @ \ {r}]
    /\ Emit(Members(r) \ {s}, Event("user_left", sockets[s].userId, r, "", NoBody, ""))
    /\ UNCHANGED <<messages, sends, reply, activeUsers>>
    /\ UNCHANGED videoVars

\* a relay with io.to(roomId) in place of socket.to(roomId)
VideoSignalToAll(s, r, sig) ==
    /\ SocketEvent(s)
    /\ Emit(Members(r), Event("video_signal", sockets[s].userId, r, "", NoBody, sig))
    /\ UNCHANGED <<messages, sends, reply, sockets, activeUsers>>
    /\ UNCHANGED videoVars

\* socket.on('video_signal')
VideoSignal(s, r, sig) ==
    /\ SocketEvent(s)
    /\ Emit(Members(r) \ {s}, Event("video_signal", sockets[s].userId, r, "", NoBody, sig))
    /\ UNCHANGED <<messages, sends, reply, sockets, activeUsers>>
    /\ UNCHANGED videoVars

\* socket.on('send_message'); the conversationId and the timestamp of the
\* payload are passed on as they are and left out here
SendMessageEvent(s, r, b) ==
    /\ SocketEvent(s)
    /\ IF r \in ChatUsers /\ activeUsers[r] # 0
         THEN Emit(Holder(activeUsers[r]),
                   Event("new_message", sockets[s].userId, 0, r, b, ""))
         ELSE UNCHANGED emitted
    /\ UNCHANGED <<messages, sends, reply, sockets, activeUsers>>
    /\ UNCHANGED videoVars

\* the two typing events and the event each is relayed as
TypingEvents == {"typing_start", "typing_stop"}
RelayedAs(name) == IF name = "typing_start" THEN "user_typing" ELSE "user_stopped_typing"

\* socket.on('typing_start') and socket.on('typing_stop'); the
\* conversationId of the payload is passed on as it is and left out here
Typing(s, name, r) ==
    /\ SocketEvent(s)
    /\ IF r \in ChatUsers /\ activeUsers[r] # 0
         THEN Emit(Holder(activeUsers[r]),
                   Event(RelayedAs(name), sockets[s].userId, 0, r, NoBody, ""))
         ELSE UNCHANGED emitted
    /\ UNCHANGED <<messages, sends, reply, sockets, activeUsers>>
    /\ UNCHANGED videoVars

\* socket.on('disconnect'): the connection leaves its rooms and is gone
Disconnect(s) ==
    /\ SocketEvent(s)
    /\ sockets' = [sockets EXCEPT ![s] = ClosedSocket]
    /\ activeUsers' = IF sockets[s].userId # ""
                        THEN [activeUsers EXCEPT ![sockets[s].userId] = 0]
                        ELSE activeUsers
    /\ UNCHANGED <<messages, sends, reply, emitted>>
    /\ UNCHANGED videoVars

---------------------------------------------------------------------------
(* The chat service, running beside a video session of appointment a1 that *)
(* a confirmation has created                                              *)

ConfirmedByTherapist ==
    [op |-> "appointment", user |-> "ther", appt |-> "a1", room |-> 0,
     code |-> 200, roomId |-> 0, alone |-> TRUE]

ChatInit ==
    /\ now = 0
    /\ ticks = 0
    /\ appts = [a \in Appts |-> [status |-> "confirmed", sessionType |-> "video"]]
    /\ sessions = <<[NewVideoSession("a1", ApptPatient("a1"), ApptTherapist("a1"))
                        EXCEPT !.roomId = 1]>>
    /\ procs = [p \in Procs |-> IdleProc]
    /\ requests = 1
    /\ solo = TRUE
    /\ serial = TRUE
    /\ resp = ConfirmedByTherapist
    /\ ChatStart
    /\ opsLeft = MaxChatOps

\* messages, the presence map, and the relay of messages
ChatNext ==
    \/ \E p \in ChatProcs, u \in ChatUsers, r \in ReceiverInputs, b \in Bodies :
          SM_Validate(p, u, r, b)
    \/ \E p \in ChatProcs : SM_FindReceiver(p)
    \/ \E p \in ChatProcs : SM_Relationship(p)
    \/ \E p \in ChatProcs : SM_Save(p)
    \/ Connect
    \/ \E s \in SocketIds, token \in Tokens : Authenticate(s, token)
    \/ \E s \in SocketIds, r \in ReceiverInputs, b \in Bodies : SendMessageEvent(s, r, b)
    \/ \E s \in SocketIds : Disconnect(s)

ChatSpec == ChatInit /\ [][ChatNext]_vars

\* the same start with the budget of the room relay
SocketInit ==
    /\ now = 0
    /\ ticks = 0
    /\ appts = [a \in Appts |-> [status |-> "confirmed", sessionType |-> "video"]]
    /\ sessions = <<[NewVideoSession("a1", ApptPatient("a1"), ApptTherapist("a1"))
                        EXCEPT !.roomId = 1]>>
    /\ procs = [p \in Procs |-> IdleProc]
    /\ requests = 1
    /\ solo = TRUE
    /\ serial = TRUE
    /\ resp = ConfirmedByTherapist
    /\ ChatStart
    /\ opsLeft = MaxSocketOps

\* connections, rooms, and the relay of room events
SocketNext ==
    \/ Connect
    \/ \E s \in SocketIds, token \in Tokens : Authenticate(s, token)
    \/ \E s \in SocketIds, r \in SocketRooms : JoinVideoSessionRoom(s, r)
    \/ \E s \in SocketIds, r \in SocketRooms : LeaveVideoSessionRoom(s, r)
    \/ \E s \in SocketIds, r \in SocketRooms, sig \in Signals : VideoSignal(s, r, sig)
    \/ \E s \in SocketIds, r \in ReceiverInputs, b \in Bodies : SendMessageEvent(s, r, b)
    \/ \E s \in SocketIds, name \in TypingEvents, r \in ReceiverInputs : Typing(s, name, r)
    \/ \E s \in SocketIds : Disconnect(s)

SocketSpec == SocketInit /\ [][SocketNext]_vars

\* the same start with the budget of the conversation handlers
ConversationInit ==
    /\ now = 0
    /\ ticks = 0
    /\ appts = [a \in Appts |-> [status |-> "confirmed", sessionType |-> "video"]]
    /\ sessions = <<[NewVideoSession("a1", ApptPatient("a1"), ApptTherapist("a1"))
                        EXCEPT !.roomId = 1]>>
    /\ procs = [p \in Procs |-> IdleProc]
    /\ requests = 1
    /\ solo = TRUE
    /\ serial = TRUE
    /\ resp = ConfirmedByTherapist
    /\ ChatStart
    /\ opsLeft = MaxConversationOps

\* the bodies sent in runs that are about reading
ShortBodies == {[text |-> "h", len |-> 1]}

\* sending, listing and reading messages
ConversationNext ==
    \/ \E p \in ChatProcs, u \in ChatUsers, r \in ChatUsers, b \in ShortBodies :
          SM_Validate(p, u, r, b)
    \/ \E p \in ChatProcs : SM_FindReceiver(p)
    \/ \E p \in ChatProcs : SM_Relationship(p)
    \/ \E p \in ChatProcs : SM_Save(p)
    \/ \E p \in ChatProcs, u \in ChatUsers, v \in PartnerInputs : GC_Relationship(p, u, v)
    \/ \E p \in ChatProcs : GC_Find(p)
    \/ \E p \in ChatProcs : GC_Update(p)
    \/ \E u \in ChatUsers, c \in ConversationInputs : MarkAsRead(u, c)

ConversationSpec == ConversationInit /\ [][ConversationNext]_vars

\* messages stored by earlier sends: one each way between the patient and
\* the therapist, and one from the administrator to the patient
StoredMessages ==
    << NewChat("pat", "ther", [text |-> "h", len |-> 1]),
       NewChat("ther", "pat", [text |-> "h", len |-> 1]),
       NewChat("adm", "pat", [text |-> "h", len |-> 1]) >>

\* the chat service with those messages stored and nothing in flight
ReadInit ==
    /\ now = 0
    /\ ticks = 0
    /\ appts = [a \in Appts |-> [status |-> "confirmed", sessionType |-> "video"]]
    /\ sessions = <<[NewVideoSession("a1", ApptPatient("a1"), ApptTherapist("a1"))
                        EXCEPT !.roomId = 1]>>
    /\ procs = [p \in Procs |-> IdleProc]
    /\ requests = 1
    /\ solo = TRUE
    /\ serial = TRUE
    /\ resp = ConfirmedByTherapist
    /\ messages = StoredMessages
    /\ sends = [p \in ChatProcs |-> IdleSend]
    /\ reply = NoReply
    /\ sockets = [s \in SocketIds |-> FreeSocket]
    /\ activeUsers = [u \in ChatUsers |-> 0]
    /\ emitted = <<>>
    /\ opsLeft = MaxReadOps

\* sending, listing and reading messages while time passes
ReadNext ==
    \/ Tick
    \/ ConversationNext

ReadSpec == ReadInit /\ [][ReadNext]_vars

---------------------------------------------------------------------------
(* Steps named by the properties below *)

\* The handler in slot p sends its response in this step.
Finishes(p) == InFlight(p) /\ procs'[p].pc = "idle"

\* A request is accepted and answered within one step.
AnsweredAtOnce == requests' = requests + 1 /\ procs' = procs

\* A request of kind op is answered in this step; resp' is its response.
Answered(op) ==
    /\ resp'.op = op
    /\ \/ AnsweredAtOnce
       \/ \E p \in Procs : procs[p].op = op /\ Finishes(p)

Terminal == {"ended", "cancelled"}

AllowedTransitions ==
    { <<"waiting", "active">>, <<"waiting", "ended">>, <<"waiting", "cancelled">>,
      <<"active", "ended">>, <<"active", "cancelled">> }

---------------------------------------------------------------------------
(* Properties *)

\* C1: a status update by a party on a session the handler loaded as ended or
\* cancelled is refused (not answered 200) and leaves every stored session
\* field unchanged.
C1_TerminalSessionRejectsSetStatus ==
    [][\A p \in Procs :
          (procs[p].op = "status" /\ Finishes(p) /\ procs[p].doc.status \in Terminal)
              => (resp'.code # 200 /\ sessions' = sessions)]_vars

\* C2: no two stored video sessions have the same appointmentId.
C2_OneSessionPerAppointment ==
    \A i, j \in 1..Len(sessions) :
        sessions[i].appointmentId = sessions[j].appointmentId => i = j

\* C3: when a create call by a party of the appointment is answered right
\* after a create call for the same appointment was answered 200, neither
\* call overlapping another request, then it is answered 200 with the same
\* roomId, unless a store write of its own failed (500).
C3_CreateTwiceSameRoom ==
    [][( /\ Answered("create")
         /\ resp'.alone
         /\ resp'.code # 500
         /\ resp'.appt \in Appts
         /\ resp'.user \in {ApptPatient(resp'.appt), ApptTherapist(resp'.appt)}
         /\ resp.op = "create"
         /\ resp.code = 200
         /\ resp.alone
         /\ resp.appt = resp'.appt )
          => (resp'.code = 200 /\ resp'.roomId = resp.roomId)]_vars

\* C3 witness: on a phone appointment (whose session only create can have
\* inserted) a run of three requests, the patient's create and then the
\* therapist's create, has listed both and answered the second one 200.
C3_Witness ==
    /\ requests = 3
    /\ serial
    /\ resp.op = "create" /\ resp.user = "ther" /\ resp.code = 200 /\ resp.alone
    /\ appts[resp.appt].sessionType = "phone"
    /\ Len(sessions) = 1
    /\ sessions[1].roomId = resp.roomId
    /\ Len(sessions[1].participants) = 2
    /\ sessions[1].participants[1].userId = "pat"
    /\ sessions[1].participants[2].userId = "ther"

\* C4: a successful Appointment update of an `ended` request leaves the
\* linked appointment completed; when an `ended` request on a session loaded
\* as waiting or active is answered 200 the stored session has status ended
\* and endTime the time of the request, the appointment is completed if the
\* request overlapped no other, and a session loaded as active with a
\* startTime 1800 seconds before the request has duration 1800.
C4_EndedCompletesAppointment ==
    [][\A p \in Procs :
          LET fr == procs[p] IN
          /\ (fr.pc = "uss_updateAppt" /\ procs'[p].pc = "uss_save")
                => appts'[fr.doc.appointmentId].status = "completed"
          /\ ( /\ fr.pc = "uss_save" /\ fr.status = "ended"
               /\ fr.doc.status \notin Terminal
               /\ Finishes(p) /\ resp'.code = 200 )
                => /\ sessions'[fr.sid].status = "ended"
                   /\ sessions'[fr.sid].endTime = <<fr.t>>
                   /\ resp'.alone => appts'[fr.doc.appointmentId].status = "completed"
                   /\ ( /\ fr.doc.status = "active"
                        /\ fr.doc.startTime # <<>>
                        /\ fr.t - fr.doc.startTime[1] = 1800 * 1000 )
                         => sessions'[fr.sid].duration = <<1800>>]_vars

\* C4 witness: the patient's `ended` request was answered 200 on a session
\* started 1800 seconds earlier; the session is ended with duration 1800 and
\* the appointment is completed.
C4_Witness ==
    /\ resp.op = "status" /\ resp.user = "pat" /\ resp.code = 200
    /\ Len(sessions) = 1
    /\ sessions[1].status = "ended"
    /\ sessions[1].startTime # <<>>
    /\ sessions[1].endTime = <<sessions[1].startTime[1] + 1800000>>
    /\ sessions[1].duration = <<1800>>
    /\ appts[sessions[1].appointmentId].status = "completed"

\* C5: when the appointment update of an `ended` request fails, the session
\* is nevertheless stored with status ended and endTime the time of the
\* request.
C5_EndedCommitsDespiteAppointmentFailure ==
    [][\A p \in Procs :
          (procs[p].pc = "uss_updateAppt" /\ Finishes(p))
              => /\ sessions'[procs[p].sid].status = "ended"
                 /\ sessions'[procs[p].sid].endTime = <<procs[p].t>>]_vars

\* C6: a session is stored with status waiting, and its stored status only
\* changes along waiting->active, waiting->ended, waiting->cancelled,
\* active->ended, active->cancelled.
C6_StatusFollowsStateMachine ==
    [][/\ \A i \in 1..Len(sessions) :
             sessions'[i].status # sessions[i].status
                => <<sessions[i].status, sessions'[i].status>> \in AllowedTransitions
       /\ \A i \in (Len(sessions) + 1)..Len(sessions') :
             sessions'[i].status = "waiting"]_vars

\* C7: create inserts a session, or is answered 200, only for a video
\* appointment; a create by a party, overlapping no other request, for an
\* appointment that is not confirmed or not of type video is answered 400
\* and stores nothing.
C7_CreateRequiresConfirmedVideo ==
    [][/\ \A p \in Procs :
             ( /\ procs[p].op = "create"
               /\ \/ Len(sessions') > Len(sessions)
                  \/ Finishes(p) /\ resp'.code = 200 )
                => appts[procs[p].appt].sessionType = "video"
       /\ ( /\ Answered("create")
            /\ resp'.alone
            /\ resp'.appt \in Appts
            /\ resp'.user \in {ApptPatient(resp'.appt), ApptTherapist(resp'.appt)}
            /\ \/ appts[resp'.appt].status # "confirmed"
               \/ appts[resp'.appt].sessionType # "video" )
             => (resp'.code = 400 /\ sessions' = sessions)]_vars

\* C8: a join that names a stored session and comes from an identity that is
\* neither its patientId nor its therapistId is answered 403 and changes no
\* stored session (and so no participants list).
C8_JoinByOutsiderForbidden ==
    [][( /\ Answered("join")
         /\ \E i \in 1..Len(sessions) :
               /\ sessions[i].roomId = resp'.room
               /\ resp'.user \notin {sessions[i].patientId, sessions[i].therapistId} )
          => (resp'.code = 403 /\ sessions' = sessions)]_vars

\* C8 witness: an outsider's join of an existing room was answered 403.
C8_Witness ==
    /\ resp.op = "join" /\ resp.user = "other" /\ resp.code = 403
    /\ \E i \in 1..Len(sessions) : sessions[i].roomId = resp.room

\* C9: a status update that names a stored session and comes from an
\* identity that is neither its patientId nor its therapistId is answered
\* 403 and changes neither a stored session nor an appointment.
C9_SetStatusByOutsiderForbidden ==
    [][( /\ Answered("status")
         /\ \E i \in 1..Len(sessions) :
               /\ sessions[i].roomId = resp'.room
               /\ resp'.user \notin {sessions[i].patientId, sessions[i].therapistId} )
          => (resp'.code = 403 /\ sessions' = sessions /\ appts' = appts)]_vars

\* C9 witness: an outsider's status update of an existing session, with the
\* appointment still confirmed, was answered 403.
C9_Witness ==
    /\ resp.op = "status" /\ resp.user = "other" /\ resp.code = 403
    /\ \E i \in 1..Len(sessions) :
          /\ sessions[i].roomId = resp.room
          /\ sessions[i].status = "waiting"
          /\ appts[sessions[i].appointmentId].status = "confirmed"

\* C10: when a join by a user whom the loaded session already lists is
\* answered 200, the stored participants list keeps its length, every entry
\* but the user's first keeps its value, and that entry is the user's with
\* joinedAt the time of this join.
C10_RejoinRefreshesJoinedAt ==
    [][\A p \in Procs :
          LET fr    == procs[p]
              mine  == {i \in 1..Len(fr.doc.participants) :
                            fr.doc.participants[i].userId = fr.user}
              old   == sessions[fr.sid].participants
              new   == sessions'[fr.sid].participants
          IN  ( /\ fr.pc = "jvs_save" /\ Finishes(p) /\ resp'.code = 200
                /\ mine # {} )
                => /\ Len(new) = Len(old)
                   /\ \E i \in mine :
                         /\ \A j \in mine : i <= j
                         /\ new[i] = [old[i] EXCEPT !.joinedAt = fr.t]
                         /\ new[i].userId = fr.user
                         /\ \A k \in 1..Len(old) : k # i => new[k] = old[k]]_vars

\* C10 witness: the patient's join was answered 200 and the patient's entry,
\* listed before the therapist's, carries a later joinedAt than the
\* therapist's: it was refreshed after both had joined.
C10_Witness ==
    /\ resp.op = "join" /\ resp.user = "pat" /\ resp.code = 200
    /\ \E i \in 1..Len(sessions) :
          /\ resp.room = sessions[i].roomId
          /\ Len(sessions[i].participants) = 2
          /\ sessions[i].participants[1].userId = "pat"
          /\ sessions[i].participants[2].userId = "ther"
          /\ sessions[i].participants[1].joinedAt > sessions[i].participants[2].joinedAt

\* C11: a status update to `active` on a session the handler loaded with
\* startTime set leaves the stored startTime as it was; when the request
\* overlapped no other, that is the startTime the handler loaded.
C11_ActiveKeepsStartTime ==
    [][\A p \in Procs :
          LET fr == procs[p] IN
          ( /\ fr.pc = "uss_save" /\ fr.status = "active"
            /\ fr.doc.startTime # <<>>
            /\ Finishes(p) )
            => /\ sessions'[fr.sid].startTime = sessions[fr.sid].startTime
               /\ resp'.alone => sessions'[fr.sid].startTime = fr.doc.startTime]_vars

\* C11 witness: in a run of requests one after the other, the session was
\* started at time 0, ended 500 ms later with duration 0, and then set to
\* active again; its startTime is still 0.
C11_Witness ==
    /\ serial
    /\ resp.op = "status" /\ resp.code = 200
    /\ Len(sessions) = 1
    /\ sessions[1].status = "active"
    /\ sessions[1].startTime = <<0>>
    /\ sessions[1].endTime = <<500>>
    /\ sessions[1].duration = <<0>>

\* C12: when a status update to `ended` made at time T2 is answered 200,
\* the stored endTime is T2; if the handler loaded the session with
\* startTime T1 the stored duration is the whole number q of seconds with
\* q*1000 <= T2 - T1 < (q+1)*1000; if the stored session has no startTime
\* the duration stays unset.
C12_EndedSetsEndTimeAndDuration ==
    [][\A p \in Procs :
          LET fr  == procs[p]
              new == sessions'[fr.sid]
          IN  ( /\ fr.pc = "uss_save" /\ fr.status = "ended"
                /\ Finishes(p) /\ resp'.code = 200 )
                => /\ new.endTime = <<fr.t>>
                   /\ fr.doc.startTime # <<>>
                        => /\ new.duration # <<>>
                           /\ new.duration[1] * 1000 <= fr.t - fr.doc.startTime[1]
                           /\ fr.t - fr.doc.startTime[1] < (new.duration[1] + 1) * 1000
                   /\ sessions[fr.sid].startTime = <<>>
                        => /\ new.startTime = <<>>
                           /\ new.duration = <<>>]_vars

\* C12 witness: a session ended 500 ms after it was started has duration 0.
C12_Witness ==
    /\ resp.op = "status" /\ resp.code = 200
    /\ \E i \in 1..Len(sessions) :
          /\ resp.room = sessions[i].roomId
          /\ sessions[i].status = "ended"
          /\ sessions[i].startTime # <<>>
          /\ sessions[i].endTime = <<sessions[i].startTime[1] + 500>>
          /\ sessions[i].duration = <<0>>

\* C13: every stored session whose duration is set has status ended and has
\* both startTime and endTime set.
C13_DurationImpliesEnded ==
    \A i \in 1..Len(sessions) :
        sessions[i].duration # <<>>
            => /\ sessions[i].status = "ended"
               /\ sessions[i].startTime # <<>>
               /\ sessions[i].endTime # <<>>

\* C14: no step of a status update to `cancelled` (its lookup, its save, its
\* response) changes an appointment.
C14_CancelledLeavesAppointment ==
    [][\A p \in Procs :
          LET fr == IF InFlight(p) THEN procs[p] ELSE procs'[p]
          IN  ( /\ procs'[p] # procs[p]
                /\ fr.op = "status" /\ fr.status = "cancelled" )
                => appts' = appts]_vars

\* C14 witness: a status update was answered 200, the session is cancelled
\* and its appointment is still confirmed.
C14_Witness ==
    /\ resp.op = "status" /\ resp.code = 200
    /\ \E i \in 1..Len(sessions) :
          /\ resp.room = sessions[i].roomId
          /\ sessions[i].status = "cancelled"
          /\ appts[sessions[i].appointmentId].status = "confirmed"

\* C15: when a status update carrying notes is answered 200, a request by
\* the session's therapistId stores them as therapistNotes and leaves
\* patientFeedback alone, a request by its patientId stores them as
\* patientFeedback and leaves therapistNotes alone; a status update by any
\* other identity changes the notes of no session.
C15_NotesFiledByIdentity ==
    [][/\ \A p \in Procs :
             LET fr  == procs[p]
                 old == sessions[fr.sid]
                 new == sessions'[fr.sid]
             IN  ( /\ fr.pc = "uss_save" /\ fr.notes # ""
                   /\ Finishes(p) /\ resp'.code = 200 )
                   => /\ fr.user = old.therapistId
                           => /\ new.therapistNotes = fr.notes
                              /\ new.patientFeedback = old.patientFeedback
                      /\ fr.user = old.patientId
                           => /\ new.patientFeedback = fr.notes
                              /\ new.therapistNotes = old.therapistNotes
       /\ ( /\ Answered("status")
            /\ \E i \in 1..Len(sessions) :
                  /\ sessions[i].roomId = resp'.room
                  /\ resp'.user \notin {sessions[i].patientId, sessions[i].therapistId} )
             => /\ resp'.code # 200
                /\ \A i \in 1..Len(sessions) :
                      /\ sessions'[i].therapistNotes = sessions[i].therapistNotes
                      /\ sessions'[i].patientFeedback = sessions[i].patientFeedback]_vars

\* C15 witness: the patient's status update carrying notes was answered 200;
\* the session holds them as patientFeedback and has no therapistNotes.
C15_Witness ==
    /\ resp.op = "status" /\ resp.code = 200
    /\ \E i \in 1..Len(sessions) :
          /\ resp.room = sessions[i].roomId
          /\ resp.user = sessions[i].patientId
          /\ sessions[i].patientFeedback = "note"
          /\ sessions[i].therapistNotes = ""

---------------------------------------------------------------------------
(* Properties of the chat service and the room relay *)

\* A chat request is answered in this step; reply' is its response.
ChatAnswered == reply'.n = reply.n + 1

\* a patient/therapist pair with an appointment together, or a pair with an
\* administrator in it
QualifyingPair(a, b) ==
    \/ Role(a) = "admin"
    \/ Role(b) = "admin"
    \/ /\ {Role(a), Role(b)} = {"patient", "therapist"}
       /\ \E ap \in Appts : {ApptPatient(ap), ApptTherapist(ap)} = {a, b}

\* the sorted, underscore-joined id of every pair of ids
PairIds ==
    { <<{"adm"}, "adm_adm">>,            <<{"adm", "other"}, "adm_other">>,
      <<{"adm", "pat"}, "adm_pat">>,     <<{"adm", "ther"}, "adm_ther">>,
      <<{"other"}, "other_other">>,      <<{"other", "pat"}, "other_pat">>,
      <<{"other", "ther"}, "other_ther">>, <<{"pat"}, "pat_pat">>,
      <<{"pat", "ther"}, "pat_ther">>,   <<{"ther"}, "ther_ther">> }

\* C16: every connection in the room of a stored video session is
\* authenticated as the session's patientId or therapistId, and every
\* video_signal and user_joined event of that room was delivered to such a
\* connection.
C16_RoomEventsOnlyToParties ==
    \A i \in 1..Len(sessions) :
        LET r       == sessions[i].roomId
            parties == {sessions[i].patientId, sessions[i].therapistId}
        IN  /\ \A s \in SocketIds :
                  (IsOpen(s) /\ r \in sockets[s].rooms)
                      => sockets[s].userId \in parties
            /\ \A k \in 1..Len(emitted) :
                  ( /\ emitted[k].ev.event \in {"video_signal", "user_joined"}
                    /\ emitted[k].ev.room = r )
                      => emitted[k].toUser \in parties

\* C17: every new_message delivered to a connection has a stored message
\* with the same sender, receiver and body.
C17_RelayedMessageIsStored ==
    \A k \in 1..Len(emitted) :
        emitted[k].ev.event = "new_message"
            => \E j \in 1..Len(messages) :
                  /\ messages[j].senderId = emitted[k].ev.from
                  /\ messages[j].receiverId = emitted[k].ev.receiver
                  /\ messages[j].message = emitted[k].ev.body

\* C18: a send with a body of 1 to 1000 units to an existing receiver, from
\* a sender who does not form a qualifying pair with the receiver, is
\* answered 403, and no step of its handler changes the stored messages.
C18_SendWithoutRelationshipForbidden ==
    [][/\ ( /\ ChatAnswered
            /\ reply'.receiver \in ChatUsers
            /\ reply'.body.len \in 1..MaxMessageLength
            /\ ~QualifyingPair(reply'.user, reply'.receiver) )
             => (reply'.code = 403 /\ messages' = messages)
       /\ \A p \in ChatProcs :
             ( /\ sends[p].pc # "idle"
               /\ sends'[p] # sends[p]
               /\ sends[p].receiver \in ChatUsers
               /\ ~QualifyingPair(sends[p].user, sends[p].receiver) )
                => messages' = messages]_vars

\* C18 witness: a patient without an appointment with the therapist sent
\* the therapist a one-unit message and was answered 403; nothing is stored.
C18_Witness ==
    /\ reply.code = 403
    /\ reply.user = "other" /\ reply.receiver = "ther"
    /\ reply.body.len = 1
    /\ messages = <<>>

\* C19: a send with a body of 1 to 1000 units between a qualifying pair is
\* answered 201, or 500 when the store refuses the write; answered 201 it
\* has appended exactly one message to the stored ones, with the request's
\* sender, receiver and body, unread, and with the sorted, underscore-joined
\* pair of ids as conversationId; answered 500 it has stored nothing.
C19_SendPersistsOneUnreadMessage ==
    [][( /\ ChatAnswered
         /\ reply'.receiver \in ChatUsers
         /\ reply'.body.len \in 1..MaxMessageLength
         /\ QualifyingPair(reply'.user, reply'.receiver) )
          => /\ reply'.code \in {201, 500}
             /\ reply'.code = 500 => messages' = messages
             /\ reply'.code = 201
                  => /\ Len(messages') = Len(messages) + 1
                     /\ \A j \in 1..Len(messages) : messages'[j] = messages[j]
                     /\ LET m == messages'[Len(messages')]
                        IN  /\ m.senderId = reply'.user
                            /\ m.receiverId = reply'.receiver
                            /\ m.message = reply'.body
                            /\ m.isRead = FALSE
                            /\ <<{m.senderId, m.receiverId}, m.conversationId>>
                                   \in PairIds]_vars

\* C19 witness: the therapist's 1000-unit message to the patient was
\* answered 201 while the patient had a live, authenticated connection; it
\* is the one stored message, unread, under "pat_ther".
C19_Witness ==
    /\ reply.code = 201
    /\ reply.user = "ther" /\ reply.receiver = "pat"
    /\ reply.body.len = MaxMessageLength
    /\ activeUsers["pat"] # 0
    /\ IsOpen(activeUsers["pat"])
    /\ Len(messages) = 1
    /\ messages[1].senderId = "ther"
    /\ messages[1].receiverId = "pat"
    /\ messages[1].isRead = FALSE
    /\ messages[1].conversationId = "pat_ther"

\* C20: no stored message and no delivered new_message has a body longer
\* than 1000 units.
C20_NoOverlongMessage ==
    /\ \A j \in 1..Len(messages) : messages[j].message.len <= MaxMessageLength
    /\ \A k \in 1..Len(emitted) :
          emitted[k].ev.event = "new_message"
              => emitted[k].ev.body.len <= MaxMessageLength

\* the two parties of stored message j
Parties(msgs, j) == {msgs[j].senderId, msgs[j].receiverId}

\* C21: the conversation id does not depend on the direction: any two stored
\* messages between the same two distinct users carry the same
\* conversationId, and a getConversation answered 200 has queried the
\* conversationId of every stored message between the caller and the named
\* user, whichever of the two called.
C21_ConversationIdSymmetric ==
    [][ /\ \A i, j \in 1..Len(messages') :
              ( /\ Parties(messages', i) = Parties(messages', j)
                /\ messages'[i].senderId # messages'[i].receiverId )
                 => messages'[i].conversationId = messages'[j].conversationId
        /\ ( /\ ChatAnswered
             /\ reply'.op = "conversation"
             /\ reply'.code = 200
             /\ reply'.user # reply'.receiver )
              => \A j \in 1..Len(messages') :
                    Parties(messages', j) = {reply'.user, reply'.receiver}
                       => messages'[j].conversationId = reply'.conversation ]_vars

\* C21 witness: the patient wrote to the therapist and the therapist to the
\* patient, both messages are stored under "pat_ther", and the therapist's
\* getConversation about the patient was answered 200 having queried
\* "pat_ther" and lists both.
C21_Witness ==
    /\ Len(messages) = 2
    /\ messages[1].senderId = "pat" /\ messages[1].receiverId = "ther"
    /\ messages[2].senderId = "ther" /\ messages[2].receiverId = "pat"
    /\ messages[1].conversationId = "pat_ther"
    /\ messages[2].conversationId = "pat_ther"
    /\ reply.op = "conversation" /\ reply.code = 200
    /\ reply.user = "ther" /\ reply.receiver = "pat"
    /\ reply.conversation = "pat_ther"
    /\ Len(reply.data) = 2

\* C22: no stored message has its sender as its receiver.
C22_NoMessageToSelf ==
    \A j \in 1..Len(messages) : messages[j].senderId # messages[j].receiverId

Delivered == (Len(emitted) + 1)..Len(emitted')

\* C24: a new_message or typing event addressed to an identity is delivered
\* to every open connection authenticated as that identity.
C24_EventReachesEveryConnection ==
    [][\A s \in SocketIds, r \in ChatUsers :
          ( \/ \E b \in Bodies : SendMessageEvent(s, r, b)
            \/ \E name \in TypingEvents : Typing(s, name, r) )
            => \A t \in SocketIds :
                  (sockets[t].state = "open" /\ sockets[t].userId = r)
                     => \E k \in Delivered :
                           /\ emitted'[k].to = t
                           /\ emitted'[k].ev.receiver = r]_vars

\* C25: after a connection disconnects, every identity that another open
\* connection is authenticated as has a registry entry, and the entry is an
\* open connection of that identity.
C25_DisconnectKeepsOtherConnections ==
    [][\A s \in SocketIds :
          Disconnect(s)
            => \A u \in ChatUsers :
                  (\E t \in SocketIds \ {s} :
                       sockets[t].state = "open" /\ sockets[t].userId = u)
                     => /\ activeUsers'[u] # 0
                        /\ sockets'[activeUsers'[u]].state = "open"
                        /\ sockets'[activeUsers'[u]].userId = u]_vars

\* C26: every socket id stored in the registry is that of an open
\* connection.
C26_RegistryHoldsOpenConnections ==
    \A u \in ChatUsers :
        activeUsers[u] # 0 => sockets[activeUsers[u]].state = "open"

\* C27: a typing or video_signal event changes no stored message, session
\* or appointment, and a typing event addressed to an identity that no open
\* connection is authenticated as delivers nothing.
C27_TypingAndSignalsNotStored ==
    [][/\ ( \/ \E s \in SocketIds, name \in TypingEvents, r \in ReceiverInputs :
                  Typing(s, name, r)
            \/ \E s \in SocketIds, r \in SocketRooms, sig \in Signals :
                  VideoSignal(s, r, sig) )
             => (messages' = messages /\ sessions' = sessions /\ appts' = appts)
       /\ \A s \in SocketIds, name \in TypingEvents, r \in ReceiverInputs :
             ( /\ Typing(s, name, r)
               /\ ~\E t \in SocketIds :
                      sockets[t].state = "open" /\ sockets[t].userId = r )
                => emitted' = emitted]_vars

\* C28: a video_signal sent into a room is delivered once to every other
\* open connection in the room, with the signal and the sender's identity,
\* and is not delivered to the sending connection.
C28_SignalToEveryOtherMember ==
    [][\A s \in SocketIds, r \in SocketRooms, sig \in Signals :
          VideoSignal(s, r, sig)
            => LET others == {t \in SocketIds \ {s} :
                                sockets[t].state = "open" /\ r \in sockets[t].rooms}
               IN  /\ Len(emitted') = Len(emitted) + Cardinality(others)
                   /\ \A t \in others : \E k \in Delivered :
                         /\ emitted'[k].to = t
                         /\ emitted'[k].ev.event = "video_signal"
                         /\ emitted'[k].ev.room = r
                         /\ emitted'[k].ev.signal = sig
                         /\ emitted'[k].ev.from = sockets[s].userId
                   /\ \A k \in Delivered : emitted'[k].to # s]_vars

\* C28 witness: three connections are open, the first two have each been
\* delivered the same video_signal of one room, the third none.
C28_Witness ==
    /\ \A t \in 1..3 : sockets[t].state = "open"
    /\ \E k1, k2 \in 1..Len(emitted) :
          /\ emitted[k1].to = 1 /\ emitted[k2].to = 2
          /\ emitted[k1].ev.event = "video_signal"
          /\ emitted[k2].ev = emitted[k1].ev
    /\ \A k \in 1..Len(emitted) :
          emitted[k].to = 3 => emitted[k].ev.event # "video_signal"

\* C29: a join_video_session by a connection that is already in the room
\* changes no connection's rooms and delivers nothing.
C29_RejoinIsNoOp ==
    [][\A s \in SocketIds, r \in SocketRooms :
          (JoinVideoSessionRoom(s, r) /\ r \in sockets[s].rooms)
             => (sockets' = sockets /\ emitted' = emitted)]_vars

C31_DisconnectedIsGone ==
    \A s \in SocketIds :
        sockets[s].state = "closed"
            => /\ \A r \in SocketRooms : s \notin Members(r)
               /\ sockets[s].rooms = {}
               /\ \A u \in ChatUsers : activeUsers[u] # s

\* C32: no stored session lists a user twice among its participants.
C32_OneEntryPerParticipant ==
    \A i \in 1..Len(sessions) :
        \A j, k \in 1..Len(sessions[i].participants) :
            sessions[i].participants[j].userId = sessions[i].participants[k].userId
                => j = k

\* C33: when an updateSessionStatus request that has marked the linked
\* appointment completed is answered, the stored session has status ended.
C33_CompletedMeansEnded ==
    [][\A p \in Procs :
          ( /\ procs[p].pc = "uss_save"
            /\ CompletesAppointment(procs[p].status)
            /\ Finishes(p) )
           => sessions'[procs[p].sid].status = "ended"]_vars

\* C34: a stored session with both startTime and endTime set has startTime
\* no later than endTime, and a stored duration is not negative.
C34_StartNotAfterEnd ==
    \A i \in 1..Len(sessions) :
        /\ ( IsSet(sessions[i].startTime) /\ IsSet(sessions[i].endTime) )
              => sessions[i].startTime[1] <= sessions[i].endTime[1]
        /\ IsSet(sessions[i].duration) => sessions[i].duration[1] >= 0

\* C35: once a stored session has a startTime, no step changes it.
C35_StartTimeWrittenOnce ==
    [][\A i \in 1..Len(sessions) :
          IsSet(sessions[i].startTime)
              => sessions'[i].startTime = sessions[i].startTime]_vars

\* C36: a video_signal or leave_video_session event that is delivered to
\* some connection comes from an authenticated connection that is a member
\* of the room it names, and a join_video_session event that is delivered
\* to some connection comes from an authenticated connection.
C36_RelayOnlyFromAuthenticatedMember ==
    [][\A s \in SocketIds, r \in SocketRooms :
          /\ ( /\ \/ \E sig \in Signals : VideoSignal(s, r, sig)
                   \/ LeaveVideoSessionRoom(s, r)
                /\ Delivered # {} )
               => sockets[s].userId # "" /\ s \in Members(r)
          /\ ( JoinVideoSessionRoom(s, r) /\ Delivered # {} )
               => sockets[s].userId # ""]_vars

\* C37: a step changes a stored message only as a markAsRead or a
\* getConversation answered 200 that marks it read: the message belongs to
\* the conversation the request names (for getConversation, the one between
\* the caller and the named user), is addressed to the caller and was
\* unread; it becomes read with readAt the time of the update and is
\* otherwise as before.  Messages addressed to the other party, messages of
\* other conversations and messages already read, their readAt included,
\* stay as they are.
C37_ReadTouchesOnlyOwnUnread ==
    [][\A j \in 1..Len(messages) :
          messages'[j] # messages[j]
              => /\ ChatAnswered
                 /\ reply'.op \in {"read", "conversation"}
                 /\ reply'.code = 200
                 /\ messages[j].conversationId = reply'.conversation
                 /\ messages[j].receiverId = reply'.user
                 /\ reply'.op = "conversation"
                      => messages[j].senderId = reply'.receiver
                 /\ ~messages[j].isRead
                 /\ messages'[j] = [messages[j] EXCEPT !.isRead = TRUE,
                                                       !.readAt = Some(now)]]_vars

\* C37 witness: the patient read "pat_ther" at time 0, the therapist wrote
\* again, and the patient's markAsRead at a later time was answered 200:
\* the new message is read at that time, the one read before keeps readAt
\* 0, and the patient's own message and the administrator's message, which
\* is of another conversation, are unread.
C37_Witness ==
    /\ reply.op = "read" /\ reply.code = 200
    /\ reply.user = "pat" /\ reply.conversation = "pat_ther"
    /\ now > 0
    /\ Len(messages) = 4
    /\ messages[2].isRead /\ messages[2].readAt = Some(0)
    /\ messages[4].receiverId = "pat" /\ messages[4].conversationId = "pat_ther"
    /\ messages[4].isRead /\ messages[4].readAt = Some(now)
    /\ ~messages[1].isRead /\ messages[1].readAt = Unset
    /\ ~messages[3].isRead /\ messages[3].conversationId = "adm_pat"
====
